---- MODULE Spec2Model ----
(***************************************************************************)
(* A model of cloudflare-worker/worker.js: the edge worker that redirects  *)
(* ordinary clients (301) and serves Open Graph meta tags to Facebook      *)
(* crawlers, resolving them through KV cache -> primary API -> backup JSON.*)
(*                                                                         *)
(* JavaScript strings are sequences of tokens (a token is a one-character  *)
(* string, or a fixed literal of the source such as a base URL), so that   *)
(* concatenation is \o and slicing, trimming, searching and escaping are   *)
(* computed position by position as the code computes them.                *)
(* Other JavaScript values are tagged records.                             *)
(***************************************************************************)
EXTENDS Integers, Sequences, FiniteSets, TLC

VARIABLES
  cache,   \* the KV namespace META_CACHE: key -> stored text, or Absent
  env,     \* TRUE when env.META_CACHE is bound
  pc,      \* per invocation: where the handler is suspended
  req,     \* per invocation: the request it serves
  id,      \* per invocation: the identifier extractId returned
  cached,  \* per invocation: what META_CACHE.get returned
  got,     \* per invocation: what the primary and the backup source delivered
  meta,    \* per invocation: metaData, the record fetchMetaData returned
  timer,   \* per invocation: the abort timer of the primary fetch
  io,      \* per invocation: the cache and source operations it has issued
  resp,    \* per invocation: the response it returned
  arg,     \* the argument of a helper function applied on its own
  ret      \* the value that helper function returned

vars == <<cache, env, pc, req, id, cached, got, meta, timer, io, resp, arg, ret>>

---------------------------------------------------------------------------
(* JavaScript values *)

Undefined == [t |-> "undefined"]
Null      == [t |-> "null"]
Str(s)    == [t |-> "string", s |-> s]
Num(n)    == [t |-> "number", n |-> n]
Obj(o)    == [t |-> "object", o |-> o]
Native(f) == [t |-> "function", f |-> f]

IsStr(v) == v.t = "string"

\* ToBoolean
Truthy(v) ==
  CASE v.t = "undefined" -> FALSE
    [] v.t = "null"      -> FALSE
    [] v.t = "string"    -> v.s # <<>>
    [] v.t = "number"    -> v.n # 0
    [] OTHER             -> TRUE

\* a || b
OrElse(a, b) == IF Truthy(a) THEN a ELSE b

---------------------------------------------------------------------------
(* Characters *)

LowerLetters == {"a","b","c","d","e","f","g","h","i","j","k","l","m",
                 "n","o","p","q","r","s","t","u","v","w","x","y","z"}
UpperLetters == {"A","B","C","D","E","F","G","H","I","J","K","L","M",
                 "N","O","P","Q","R","S","T","U","V","W","X","Y","Z"}
Digits       == {"0","1","2","3","4","5","6","7","8","9"}

\* the character class [a-zA-Z0-9]
AlnumChars == LowerLetters \cup UpperLetters \cup Digits

\* the white space String.prototype.trim removes (the members the model uses)
WhiteSpace == {" ", "\t", "\n"}

LowerOf ==
  [c \in UpperLetters |->
     CASE c = "A" -> "a" [] c = "B" -> "b" [] c = "C" -> "c" [] c = "D" -> "d"
       [] c = "E" -> "e" [] c = "F" -> "f" [] c = "G" -> "g" [] c = "H" -> "h"
       [] c = "I" -> "i" [] c = "J" -> "j" [] c = "K" -> "k" [] c = "L" -> "l"
       [] c = "M" -> "m" [] c = "N" -> "n" [] c = "O" -> "o" [] c = "P" -> "p"
       [] c = "Q" -> "q" [] c = "R" -> "r" [] c = "S" -> "s" [] c = "T" -> "t"
       [] c = "U" -> "u" [] c = "V" -> "v" [] c = "W" -> "w" [] c = "X" -> "x"
       [] c = "Y" -> "y" [] c = "Z" -> "z"]

---------------------------------------------------------------------------
(* String methods *)

\* String.prototype.toLowerCase
toLowerCase(s) ==
  [i \in 1..Len(s) |-> IF s[i] \in UpperLetters THEN LowerOf[s[i]] ELSE s[i]]

\* s occurs in t at (1-based) position i
OccursAt(t, s, i) ==
  /\ i + Len(s) - 1 <= Len(t)
  /\ \A j \in 1..Len(s) : t[i + j - 1] = s[j]

\* String.prototype.includes
includes(t, s) == \E i \in 1..(Len(t) + 1) : OccursAt(t, s, i)

\* String.prototype.lastIndexOf for a one-character needle (0-based, -1 if none)
lastIndexOf(s, c) ==
  LET hits == {i \in 1..Len(s) : s[i] = c}
  IN  IF hits = {} THEN -1 ELSE (CHOOSE i \in hits : \A j \in hits : j <= i) - 1

\* String.prototype.slice(start) for 0 <= start
slice(s, start) ==
  IF start >= Len(s) THEN <<>> ELSE SubSeq(s, start + 1, Len(s))

\* String.prototype.trim
trim(s) ==
  LET keep == {i \in 1..Len(s) : s[i] \notin WhiteSpace}
  IN  IF keep = {} THEN <<>>
      ELSE SubSeq(s, CHOOSE i \in keep : \A j \in keep : i <= j,
                     CHOOSE i \in keep : \A j \in keep : j <= i)

\* /^[a-zA-Z0-9]+$/.test(s)
IsAlnumToken(s) == Len(s) > 0 /\ \A i \in 1..Len(s) : s[i] \in AlnumChars

\* String.prototype.replace(/c/g, e): every c becomes the characters of e
RECURSIVE replaceAll(_, _, _)
replaceAll(s, c, e) ==
  IF s = <<>> THEN <<>>
  ELSE (IF Head(s) = c THEN e ELSE <<Head(s)>>) \o replaceAll(Tail(s), c, e)

---------------------------------------------------------------------------
(* Configuration *)

HostWorkersDev == "topnews-redirect.takhanhthient3.workers.dev"
HostTuneblast  == "tuneblast.us"

\* the own properties of the object literal DOMAIN_MAP
DOMAIN_MAP ==
  [h \in {HostWorkersDev, HostTuneblast} |->
     IF h = HostWorkersDev THEN Str(<<"https://topnewsus.feji.io">>)
     ELSE Str(<<"https://anhus.livextop.com">>)]

DEFAULT_REDIRECT == Str(<<"https://topnewsus.feji.io">>)

API_URL    == <<"https://apisport.vbonews.com/News/news-detailbasic">>
BACKUP_URL == <<"https://file.lifenews247.com/sportnews/backup">>
CACHE_TTL  == 86400

---------------------------------------------------------------------------
(* Platform behaviour the handler relies on *)

\* Properties every object literal inherits from Object.prototype.
ObjectPrototype == {"constructor", "__proto__", "hasOwnProperty", "toString",
                    "valueOf", "isPrototypeOf"}

\* obj[key] on an object literal whose own properties are the function own:
\* own properties first, then the prototype chain, else undefined.
GetProperty(own, key) ==
  IF key \in DOMAIN own THEN own[key]
  ELSE IF key = "__proto__" THEN Obj("Object.prototype")
  ELSE IF key \in ObjectPrototype THEN Native(key)
  ELSE Undefined

\* String(v), as template literals and escapeHtml apply it
StringOf(v) ==
  CASE v.t = "string"    -> v.s
    [] v.t = "undefined" -> <<"undefined">>
    [] v.t = "null"      -> <<"null">>
    [] v.t = "number"    -> <<"7">>
    [] v.t = "object"    -> <<"[object Object]">>
    [] OTHER             -> <<"function Object() { [native code] }">>

\* The strings the handler builds that parse as absolute URLs are those that
\* begin with a destination base URL.
IsAbsoluteUrl(s) ==
  /\ s # <<>>
  /\ \/ Str(<<Head(s)>>) = DEFAULT_REDIRECT
     \/ \E h \in DOMAIN DOMAIN_MAP : Str(<<Head(s)>>) = DOMAIN_MAP[h]

NoResponse == [kind |-> "none"]

\* an exception leaves the handler uncaught
Uncaught(e) == [kind |-> "exception", error |-> e]

\* Response.redirect(url, status): a TypeError when url does not parse.  The
\* path and query come out of a parsed URL, so serialising leaves them as is.
Redirect(url, status) ==
  IF IsAbsoluteUrl(url)
  THEN [kind |-> "redirect", status |-> status, location |-> url]
  ELSE Uncaught("TypeError")

---------------------------------------------------------------------------
(* Helper functions of worker.js *)

facebook            == <<"f","a","c","e","b","o","o","k">>
facebookexternalhit == <<"f","a","c","e","b","o","o","k","e","x","t","e","r",
                         "n","a","l","h","i","t">>
facebot             == <<"f","a","c","e","b","o","t">>

isFacebookCrawler(userAgent) ==
  \/ includes(userAgent, facebook)
  \/ includes(userAgent, facebookexternalhit)
  \/ includes(userAgent, facebot)

extractId(slug) ==
  IF slug = <<>> THEN Null
  ELSE LET lastDash == lastIndexOf(slug, "-")
       IN  IF lastDash = -1 THEN Str(slug)
           ELSE LET cand == slice(slug, lastDash + 1)
                IN  IF IsAlnumToken(cand) THEN Str(cand) ELSE Null

\* the ampersand replaced last, after the entities have been introduced
escapeHtml_AmpLast(str) ==
  IF ~Truthy(str) THEN <<>>
  ELSE replaceAll(
         replaceAll(
           replaceAll(
             replaceAll(
               replaceAll(StringOf(str), "<", <<"&","l","t",";">>),
               ">", <<"&","g","t",";">>),
             "\"", <<"&","q","u","o","t",";">>),
           "'", <<"&","#","3","9",";">>),
         "&", <<"&","a","m","p",";">>)

\* the apostrophe left as it is
escapeHtml_NoApostrophe(str) ==
  IF ~Truthy(str) THEN <<>>
  ELSE replaceAll(
         replaceAll(
           replaceAll(
             replaceAll(StringOf(str), "&", <<"&","a","m","p",";">>),
             "<", <<"&","l","t",";">>),
           ">", <<"&","g","t",";">>),
         "\"", <<"&","q","u","o","t",";">>)

escapeHtml(str) ==
  IF ~Truthy(str) THEN <<>>
  ELSE replaceAll(
         replaceAll(
           replaceAll(
             replaceAll(
               replaceAll(StringOf(str), "&", <<"&","a","m","p",";">>),
               "<", <<"&","l","t",";">>),
             ">", <<"&","g","t",";">>),
           "\"", <<"&","q","u","o","t",";">>),
         "'", <<"&","#","3","9",";">>)

createMetaResponse(name, avatarLink) ==
  LET safeName  == escapeHtml(name)
      safeImage == escapeHtml(avatarLink)
  IN  [kind          |-> "html",
       status        |-> 200,
       contentType   |-> "text/html;charset=UTF-8",
       cacheControl  |-> "public, max-age=86400, s-maxage=86400",
       robots        |-> "noindex, nofollow",
       title         |-> safeName,
       ogTitle       |-> safeName,
       ogDescription |-> safeName,
       ogImage       |-> safeImage,
       ogType        |-> "article",
       fbAppId       |-> <<>>]

HomeTitle     == Str(<<"Trang chủ">>)
NotFoundTitle == Str(<<"Không tìm thấy">>)
EmptyString   == Str(<<>>)

\* one key for every identifier
CacheKey_NoId(i) == <<"meta:">>

\* `meta:${id}`
CacheKey(i) == <<"meta:">> \o i

\* `${CONFIG.API_URL}?id=${id}`
ApiUrl(i) == API_URL \o <<"?id=">> \o i

\* `${CONFIG.BACKUP_URL}/${id}.json`
BackupUrl(i) == BACKUP_URL \o <<"/">> \o i \o <<".json">>

\* JSON.stringify of the object { name, avatarLink } (its fields are JSON
\* values), and the parse that the 'json' read of KV applies to the text
JSONstringify(rec) == [json |-> rec]
JSONparse(text)    == Obj(text.json)

---------------------------------------------------------------------------
(* Decisions of the handler and of fetchMetaData *)

\* DOMAIN_MAP[url.hostname] || DEFAULT_REDIRECT
TargetDomain(hostname) ==
  OrElse(GetProperty(DOMAIN_MAP, hostname), DEFAULT_REDIRECT)

\* Response.redirect(`${targetDomain}${url.pathname}${url.search}`, 301)
FastPath(rq) ==
  Redirect(StringOf(TargetDomain(rq.hostname)) \o rq.pathname \o rq.search, 301)

\* the header matched as sent, without toLowerCase()
UserAgentOf_AsSent(rq) == OrElse(rq.userAgent, EmptyString).s

\* (request.headers.get('user-agent') || '').toLowerCase()
UserAgentOf(rq) == toLowerCase(OrElse(rq.userAgent, EmptyString).s)

\* a request without User-Agent header is not given the fast path
TakesFastPath_NeedsHeader(rq) ==
  Truthy(rq.userAgent) /\ ~isFacebookCrawler(UserAgentOf(rq))

\* if (!isFacebookCrawler(userAgent))
TakesFastPath(rq) == ~isFacebookCrawler(UserAgentOf(rq))

\* only the empty pathname taken for the homepage
IsHomepage_EmptyOnly(pathname) == pathname = <<>>

\* pathname === '/' || pathname === ''
IsHomepage(pathname) == pathname = <<"/">> \/ pathname = <<>>

\* a hit only when the record also has an image
CacheHit_NeedsAvatar(v) == Truthy(v) /\ Truthy(v.o.avatarLink)

\* if (cached)
CacheHit(v) == Truthy(v)

\* cached.name, cached.avatarLink of whatever the cache returned
Field(v, f) ==
  IF v.t = "object" /\ f \in DOMAIN v.o THEN v.o[f] ELSE Undefined

\* d?.name?.trim(): short-circuits on a nullish d or name, throws a TypeError
\* when name has no trim method
TrimmedName(d) ==
  IF d.t \in {"undefined", "null"} THEN [thrown |-> FALSE, v |-> Undefined]
  ELSE LET name == Field(d, "name")
       IN  IF name.t \in {"undefined", "null"}
             THEN [thrown |-> FALSE, v |-> Undefined]
           ELSE IF IsStr(name)
             THEN [thrown |-> FALSE, v |-> Str(trim(name.s))]
           ELSE [thrown |-> TRUE]

\* the name stored as delivered, without trim()
RecordOf_Untrimmed(d) ==
  [name       |-> Field(d, "name"),
   avatarLink |-> OrElse(Field(d, "avatarLink"), EmptyString)]

\* { name: d.name.trim(), avatarLink: d.avatarLink || '' }
RecordOf(d) ==
  [name       |-> Str(trim(Field(d, "name").s)),
   avatarLink |-> OrElse(Field(d, "avatarLink"), EmptyString)]

\* what the body of a source's try block does with the object d that should
\* hold the name: return a record, fall out of the if, or throw
Examine(d) ==
  LET t == TrimmedName(d)
  IN  IF t.thrown THEN [out |-> "throw"]
      ELSE IF Truthy(t.v) THEN [out |-> "return", rec |-> RecordOf(d)]
      ELSE [out |-> "fallthrough"]

\* the primary try block without its return: a good record is dropped
PrimaryResult_NoReturn(body) == [out |-> "fallthrough"]

\* the primary try block once response.json() settles: json.data of a null
\* json throws, a rejected json() throws
PrimaryResult(body) ==
  IF body.kind = "malformed" THEN [out |-> "throw"]
  ELSE IF body.v.t = "null" THEN [out |-> "throw"]
  ELSE Examine(Field(body.v, "data"))

\* the backup try block once backupResponse.json() settles
BackupResult(body) ==
  IF body.kind = "malformed" THEN [out |-> "throw"]
  ELSE Examine(body.v)

\* return { name: '', avatarLink: '' }
EmptyRecord == [name |-> EmptyString, avatarLink |-> EmptyString]

\* the write-back without the test of metaData.name
ShouldCache_Always(bound, metaData) == bound

\* env.META_CACHE && metaData.name
\* the write-back without the test of the binding
ShouldCache_NameOnly(bound, metaData) == Truthy(metaData.name)

ShouldCache(bound, metaData) == bound /\ Truthy(metaData.name)

---------------------------------------------------------------------------
(* The requests and the answers of the environment *)

Invocations == {1, 2}

\* User-Agent headers: absent, an ordinary client, a crawler
UserAgents ==
  { Null,
    Str(<<"c","u","r","l">>),
    Str(<<"F","a","c","e","b","o","t">>) }

\* url.hostname: the two mapped hosts, an unmapped one, and a host named
\* like a property of Object.prototype
Hostnames == {HostWorkersDev, HostTuneblast, "example.org", "constructor"}

\* url.pathname of an http(s) URL always starts with "/"
Pathnames ==
  { <<"/">>,
    <<"/","t","-","a","1">>,
    <<"/","a","_","b">>,
    <<"/","t","-">> }

\* url.search
Searches == { <<>>, <<"?","x","=","1">> }

Requests ==
  [userAgent : UserAgents, hostname : Hostnames,
   pathname : Pathnames, search : Searches]

NameValues ==
  { Undefined, Num(7), Str(<<>>), Str(<<" ">>),
    Str(<<"F","&">>), Str(<<" ","F","&","\t">>) }

AvatarValues == { Undefined, Str(<<"i">>) }

\* the object that should hold the name: absent, null, or an object
Payloads ==
  {Undefined, Null} \cup
  { Obj([name |-> n, avatarLink |-> a]) : n \in NameValues, a \in AvatarValues }

Malformed == [kind |-> "malformed"]
Json(v)   == [kind |-> "json", v |-> v]

\* what response.json() of the primary API can settle with: a rejection, null,
\* or { data: payload } (an absent payload is a body without data)
PrimaryBodies ==
  {Malformed, Json(Null)} \cup { Json(Obj([data |-> d])) : d \in Payloads }

\* what backupResponse.json() can settle with
BackupBodies ==
  {Malformed} \cup { Json(d) : d \in Payloads \ {Undefined} }

Pending == [o |-> "none"]
NoDelivery == [primary |-> Pending, backup |-> Pending]

---------------------------------------------------------------------------
(* The KV namespace *)

\* META_CACHE.get(key, 'json'): the parsed value, null when the key is absent
KvGet(store, key) ==
  IF \E e \in store : e.key = key
  THEN JSONparse((CHOOSE e \in store : e.key = key).value)
  ELSE Null

\* a put that leaves an entry already stored under the key as it is
KvPut_KeepFirst(store, key, value, ttl) ==
  IF \E e \in store : e.key = key THEN store
  ELSE store \cup {[key |-> key, value |-> value, expirationTtl |-> ttl]}

\* META_CACHE.put(key, value, { expirationTtl })
KvPut(store, key, value, ttl) ==
  {e \in store : e.key # key} \cup
  {[key |-> key, value |-> value, expirationTtl |-> ttl]}

---------------------------------------------------------------------------
(* Initial state *)

IdleInvocation ==
  /\ pc     = [r \in Invocations |-> "idle"]
  /\ req    = [r \in Invocations |-> Undefined]
  /\ id     = [r \in Invocations |-> Undefined]
  /\ cached = [r \in Invocations |-> Undefined]
  /\ got    = [r \in Invocations |-> NoDelivery]
  /\ meta   = [r \in Invocations |-> Undefined]
  /\ timer  = [r \in Invocations |-> "none"]
  /\ io     = [r \in Invocations |-> <<>>]
  /\ resp   = [r \in Invocations |-> NoResponse]

Init ==
  /\ cache = {}
  /\ env \in BOOLEAN
  /\ IdleInvocation
  /\ arg = Undefined
  /\ ret = Undefined

---------------------------------------------------------------------------
(* Steps of one invocation.  An action is one resumption of the handler:   *)
(* the settling of the operation it awaits and the code up to the next     *)
(* await or to the return.                                                 *)

\* return <response>
Return(r, response) ==
  /\ resp' = [resp EXCEPT ![r] = response]
  /\ pc'   = [pc EXCEPT ![r] = "done"]

\* fetchMetaData, up to the await of the primary fetch: arm the abort timer
\* and issue the request
CallFetchMetaData(r, i) ==
  /\ timer' = [timer EXCEPT ![r] = "armed"]
  /\ io'    = [io EXCEPT ![r] = Append(@, [op |-> "primary", url |-> ApiUrl(i.s)])]
  /\ pc'    = [pc EXCEPT ![r] = "primary_wait"]

\* fetchMetaData, from the end of the primary try/catch to the await of the
\* backup fetch
FallBackToBackup(r) ==
  /\ io' = [io EXCEPT ![r] = Append(@, [op |-> "backup", url |-> BackupUrl(id[r].s)])]
  /\ pc' = [pc EXCEPT ![r] = "backup_wait"]

\* the handler once fetchMetaData returned metaData: the write-back, or the
\* response when there is nothing to write
Resolved(r, metaData) ==
  /\ meta' = [meta EXCEPT ![r] = metaData]
  /\ IF ShouldCache(env, metaData)
     THEN /\ io' = [io EXCEPT ![r] =
                      Append(@, [op    |-> "put",
                                 key   |-> CacheKey(id[r].s),
                                 value |-> JSONstringify(metaData),
                                 expirationTtl |-> CACHE_TTL])]
          /\ pc' = [pc EXCEPT ![r] = "cache_put"]
          /\ UNCHANGED resp
     ELSE /\ Return(r, createMetaResponse(metaData.name, metaData.avatarLink))
          /\ UNCHANGED io

\* fetch(request, env), up to its first await or its return, for a request
\* out of the set requests
ReceiveFrom(r, requests) ==
  /\ pc[r] = "idle"
  /\ \E rq \in requests :
       /\ req' = [req EXCEPT ![r] = rq]
       /\ IF TakesFastPath(rq)
          THEN /\ Return(r, FastPath(rq))
               /\ UNCHANGED <<id, timer, io>>
          ELSE IF IsHomepage(rq.pathname)
          THEN /\ Return(r, createMetaResponse(HomeTitle, EmptyString))
               /\ UNCHANGED <<id, timer, io>>
          ELSE LET i == extractId(slice(rq.pathname, 1))
               IN  /\ id' = [id EXCEPT ![r] = i]
                   /\ IF ~Truthy(i)
                      THEN /\ Return(r, createMetaResponse(NotFoundTitle, EmptyString))
                           /\ UNCHANGED <<timer, io>>
                      ELSE IF env
                      THEN /\ io' = [io EXCEPT ![r] =
                                       Append(@, [op |-> "get", key |-> CacheKey(i.s)])]
                           /\ pc' = [pc EXCEPT ![r] = "cache_get"]
                           /\ UNCHANGED <<timer, resp>>
                      ELSE /\ CallFetchMetaData(r, i)
                           /\ UNCHANGED resp
  /\ UNCHANGED <<cache, env, cached, got, meta, arg, ret>>

Receive(r) == ReceiveFrom(r, Requests)

\* META_CACHE.get settles with a value
CacheGetReturns(r) ==
  /\ pc[r] = "cache_get"
  /\ LET v == KvGet(cache, CacheKey(id[r].s))
     IN  /\ cached' = [cached EXCEPT ![r] = v]
         /\ IF CacheHit(v)
            THEN /\ Return(r, createMetaResponse(Field(v, "name"), Field(v, "avatarLink")))
                 /\ UNCHANGED <<timer, io>>
            ELSE /\ CallFetchMetaData(r, id[r])
                 /\ UNCHANGED resp
  /\ UNCHANGED <<cache, env, req, id, got, meta, arg, ret>>

\* META_CACHE.get rejects with no try/catch around it
CacheGetThrows_Uncaught(r) ==
  /\ pc[r] = "cache_get"
  /\ cached' = [cached EXCEPT ![r] = [t |-> "thrown"]]
  /\ Return(r, Uncaught("Error"))
  /\ UNCHANGED <<cache, env, req, id, got, meta, timer, io, arg, ret>>

\* META_CACHE.get rejects: caught, the handler goes on as on a miss
CacheGetThrows(r) ==
  /\ pc[r] = "cache_get"
  /\ cached' = [cached EXCEPT ![r] = [t |-> "thrown"]]
  /\ CallFetchMetaData(r, id[r])
  /\ UNCHANGED <<cache, env, req, id, got, meta, resp, arg, ret>>


Delivered(r, source, outcome) == got' = [got EXCEPT ![r][source] = outcome]

\* the primary fetch settles with a response: clearTimeout, then response.ok
PrimaryResponds(r) ==
  /\ pc[r] = "primary_wait"
  /\ timer' = [timer EXCEPT ![r] = "cleared"]
  /\ \E ok \in BOOLEAN :
       IF ok
       THEN /\ pc' = [pc EXCEPT ![r] = "primary_body"]
            /\ UNCHANGED <<got, io>>
       ELSE /\ Delivered(r, "primary", [o |-> "status"])
            /\ FallBackToBackup(r)
  /\ UNCHANGED <<cache, env, req, id, cached, meta, resp, arg, ret>>

\* the primary fetch rejects with a network failure: the catch block runs,
\* clearTimeout does not
PrimaryThrows(r) ==
  /\ pc[r] = "primary_wait"
  /\ Delivered(r, "primary", [o |-> "network"])
  /\ FallBackToBackup(r)
  /\ UNCHANGED <<cache, env, req, id, cached, meta, timer, resp, arg, ret>>

\* the primary API never answers the request
PrimaryStalls(r) ==
  /\ pc[r] = "primary_wait"
  /\ pc' = [pc EXCEPT ![r] = "primary_stalled"]
  /\ UNCHANGED <<cache, env, req, id, cached, got, meta, timer, io, resp, arg, ret>>

\* the timer set by setTimeout fires: controller.abort() rejects the fetch
\* still pending on its signal; a settled fetch is not affected
TimerFires(r) ==
  /\ timer[r] = "armed"
  /\ timer' = [timer EXCEPT ![r] = "fired"]
  /\ IF pc[r] \in {"primary_wait", "primary_stalled"}
     THEN /\ Delivered(r, "primary", [o |-> "abort"])
          /\ FallBackToBackup(r)
     ELSE UNCHANGED <<got, io, pc>>
  /\ UNCHANGED <<cache, env, req, id, cached, meta, resp, arg, ret>>

\* response.json() settles with one of bodies, and the code up to the return
\* or the catch
PrimaryBodyArrivesFrom(r, bodies) ==
  /\ pc[r] = "primary_body"
  /\ \E body \in bodies :
       /\ Delivered(r, "primary", [o |-> "body", body |-> body])
       /\ LET res == PrimaryResult(body)
          IN  IF res.out = "return"
              THEN Resolved(r, res.rec)
              ELSE /\ FallBackToBackup(r)
                   /\ UNCHANGED <<meta, resp>>
  /\ UNCHANGED <<cache, env, req, id, cached, timer, arg, ret>>

PrimaryBodyArrives(r) == PrimaryBodyArrivesFrom(r, PrimaryBodies)

\* the body of the primary response never completes
PrimaryBodyStalls(r) ==
  /\ pc[r] = "primary_body"
  /\ pc' = [pc EXCEPT ![r] = "primary_body_stalled"]
  /\ UNCHANGED <<cache, env, req, id, cached, got, meta, timer, io, resp, arg, ret>>

\* the backup fetch settles with a response
BackupResponds(r) ==
  /\ pc[r] = "backup_wait"
  /\ \E ok \in BOOLEAN :
       IF ok
       THEN /\ pc' = [pc EXCEPT ![r] = "backup_body"]
            /\ UNCHANGED <<got, meta, io, resp>>
       ELSE /\ Delivered(r, "backup", [o |-> "status"])
            /\ Resolved(r, EmptyRecord)
  /\ UNCHANGED <<cache, env, req, id, cached, timer, arg, ret>>

\* the backup fetch rejects
BackupThrows(r) ==
  /\ pc[r] = "backup_wait"
  /\ Delivered(r, "backup", [o |-> "network"])
  /\ Resolved(r, EmptyRecord)
  /\ UNCHANGED <<cache, env, req, id, cached, timer, arg, ret>>

\* the backup CDN never answers: the fetch has no timeout of its own
BackupStalls(r) ==
  /\ pc[r] \in {"backup_wait", "backup_body"}
  /\ pc' = [pc EXCEPT ![r] = "backup_stalled"]
  /\ UNCHANGED <<cache, env, req, id, cached, got, meta, timer, io, resp, arg, ret>>

\* backupResponse.json() settles with one of bodies, and the code up to the
\* return
BackupBodyArrivesFrom(r, bodies) ==
  /\ pc[r] = "backup_body"
  /\ \E body \in bodies :
       /\ Delivered(r, "backup", [o |-> "body", body |-> body])
       /\ LET res == BackupResult(body)
          IN  Resolved(r, IF res.out = "return" THEN res.rec ELSE EmptyRecord)
  /\ UNCHANGED <<cache, env, req, id, cached, timer, arg, ret>>

BackupBodyArrives(r) == BackupBodyArrivesFrom(r, BackupBodies)

\* META_CACHE.put settles: the entry is stored
CachePutDone(r) ==
  /\ pc[r] = "cache_put"
  /\ LET w == io[r][Len(io[r])]
     IN  cache' = KvPut(cache, w.key, w.value, w.expirationTtl)
  /\ Return(r, createMetaResponse(meta[r].name, meta[r].avatarLink))
  /\ UNCHANGED <<env, req, id, cached, got, meta, timer, io, arg, ret>>

\* META_CACHE.put rejects with no try/catch around it
CachePutThrows_Uncaught(r) ==
  /\ pc[r] = "cache_put"
  /\ Return(r, Uncaught("Error"))
  /\ UNCHANGED <<cache, env, req, id, cached, got, meta, timer, io, arg, ret>>

\* META_CACHE.put rejects: caught and logged
CachePutThrows(r) ==
  /\ pc[r] = "cache_put"
  /\ Return(r, createMetaResponse(meta[r].name, meta[r].avatarLink))
  /\ UNCHANGED <<cache, env, req, id, cached, got, meta, timer, io, arg, ret>>

\* the invocation is over: its context, pending timer included, is discarded
Retire(r) ==
  /\ pc[r] = "done"
  /\ pc'     = [pc EXCEPT ![r] = "idle"]
  /\ req'    = [req EXCEPT ![r] = Undefined]
  /\ id'     = [id EXCEPT ![r] = Undefined]
  /\ cached' = [cached EXCEPT ![r] = Undefined]
  /\ got'    = [got EXCEPT ![r] = NoDelivery]
  /\ meta'   = [meta EXCEPT ![r] = Undefined]
  /\ timer'  = [timer EXCEPT ![r] = "none"]
  /\ io'     = [io EXCEPT ![r] = <<>>]
  /\ resp'   = [resp EXCEPT ![r] = NoResponse]
  /\ UNCHANGED <<cache, env, arg, ret>>

\* the store drops an entry whose time to live has run out
CacheExpires ==
  /\ \E e \in cache : cache' = cache \ {e}
  /\ UNCHANGED <<env, pc, req, id, cached, got, meta, timer, io, resp, arg, ret>>

Step(r) ==
  \/ Receive(r)
  \/ CacheGetReturns(r)
  \/ CacheGetThrows(r)
  \/ PrimaryResponds(r)
  \/ PrimaryThrows(r)
  \/ PrimaryStalls(r)
  \/ TimerFires(r)
  \/ PrimaryBodyArrives(r)
  \/ PrimaryBodyStalls(r)
  \/ BackupResponds(r)
  \/ BackupThrows(r)
  \/ BackupStalls(r)
  \/ BackupBodyArrives(r)
  \/ CachePutDone(r)
  \/ CachePutThrows(r)
  \/ Retire(r)

\* one invocation at a time, any number of them one after the other
Next == Step(1) \/ CacheExpires

Spec == Init /\ [][Next]_vars

---------------------------------------------------------------------------
(* The helper functions on their own: the argument is drawn in the initial *)
(* state and the action applies the function to it.                        *)

NotCalled == [t |-> "pending"]

MaxSlugLen == 3
MaxTextLen == 4

StringsOver(alphabet, n) == UNION { [1..k -> alphabet] : k \in 0..n }

\* slugs: letters of both cases, a digit, the hyphen, a character outside
\* [a-zA-Z0-9]
SlugChars == {"a", "B", "1", "-", "_"}
Slugs     == StringsOver(SlugChars, MaxSlugLen)

\* texts: the five characters escapeHtml replaces and the characters that
\* spell an entity
TextChars == {"&", "<", ">", "\"", "'", "l", "t", ";"}
Texts     == StringsOver(TextChars, MaxTextLen)

InitExtract ==
  /\ cache = {}
  /\ env = TRUE
  /\ IdleInvocation
  /\ arg \in { Str(s) : s \in Slugs }
  /\ ret = NotCalled

CallExtractId ==
  /\ ret = NotCalled
  /\ ret' = extractId(arg.s)
  /\ UNCHANGED <<cache, env, pc, req, id, cached, got, meta, timer, io, resp, arg>>

SpecExtract == InitExtract /\ [][CallExtractId]_vars

InitEscape ==
  /\ cache = {}
  /\ env = TRUE
  /\ IdleInvocation
  /\ arg \in { Str(s) : s \in Texts } \cup {Undefined, Null, Num(7)}
  /\ ret = NotCalled

CallEscapeHtml ==
  /\ ret = NotCalled
  /\ ret' = Str(escapeHtml(arg))
  /\ UNCHANGED <<cache, env, pc, req, id, cached, got, meta, timer, io, resp, arg>>

SpecEscape == InitEscape /\ [][CallEscapeHtml]_vars

---------------------------------------------------------------------------
(* Vocabulary of the properties *)

IsCrawlerRequest(rq) == isFacebookCrawler(UserAgentOf(rq))

Ops(r, kind) == { k \in 1..Len(io[r]) : io[r][k].op = kind }

Finished(r) == pc[r] = "done"

\* the cache read of the invocation found nothing, or failed
CacheMissed(r) == cached[r].t \in {"null", "thrown"}

\* the object that should hold the name in what a source delivered
Holder(source, body) ==
  IF body.kind = "malformed" THEN Undefined
  ELSE IF source = "backup" THEN body.v
  ELSE Field(body.v, "data")

\* the source answered with a success status and a name that is a string
\* with a character other than white space
Usable(r, source) ==
  /\ got[r][source].o = "body"
  /\ LET n == Field(Holder(source, got[r][source].body), "name")
     IN  /\ n.t = "string"
         /\ \E k \in 1..Len(n.s) : n.s[k] \notin WhiteSpace

\* the source that decides the result, when one is usable
Deciding(r) == IF Usable(r, "primary") THEN "primary" ELSE "backup"

\* { trimmed name, avatarLink or '' } of what the deciding source delivered
Expected(r) ==
  LET d == Holder(Deciding(r), got[r][Deciding(r)].body)
      a == Field(d, "avatarLink")
  IN  [name       |-> Str(trim(Field(d, "name").s)),
       avatarLink |-> IF Truthy(a) THEN a ELSE EmptyString]

Renders(response, name, avatarLink) ==
  /\ response.kind = "html"
  /\ response.status = 200
  /\ response.title = escapeHtml(name)
  /\ response.ogTitle = escapeHtml(name)
  /\ response.ogImage = escapeHtml(avatarLink)

---------------------------------------------------------------------------
(* Properties *)

\* C1: a crawler request whose cache read returns a present record issues
\* no primary request, no backup request and no cache write, and its
\* response renders exactly the cached name and avatarLink.
C1_CacheHitShortCircuits ==
  \A r \in Invocations :
    cached[r].t = "object" =>
      /\ Finished(r)
      /\ Len(io[r]) = 1
      /\ io[r][1] = [op |-> "get", key |-> CacheKey(id[r].s)]
      /\ Ops(r, "primary") = {} /\ Ops(r, "backup") = {} /\ Ops(r, "put") = {}
      /\ Renders(resp[r], cached[r].o.name, cached[r].o.avatarLink)

C1_Witness ==
  \E r \in Invocations :
    /\ cached[r].t = "object"
    /\ Finished(r)
    /\ IsCrawlerRequest(req[r])

\* C2: after a cache miss, when the primary source, or the backup source
\* after the primary failed, answers with a success status and a name that
\* is not blank, the request issues exactly one cache write, to meta:X with
\* TTL 86400, of the record { trimmed name, avatarLink or '' }, and that
\* record is the one its response renders.
C2_OneWriteOfTheRenderedRecord ==
  \A r \in Invocations :
    (CacheMissed(r) /\ (Usable(r, "primary") \/ Usable(r, "backup"))) =>
      /\ Cardinality(Ops(r, "put")) = 1
      /\ \A k \in Ops(r, "put") :
           io[r][k] = [op            |-> "put",
                       key           |-> <<"meta:">> \o id[r].s,
                       value         |-> JSONstringify(Expected(r)),
                       expirationTtl |-> 86400]
      /\ Finished(r) =>
           Renders(resp[r], Expected(r).name, Expected(r).avatarLink)

C2_Witness ==
  \E r \in Invocations :
    /\ Finished(r)
    /\ cached[r] = Null
    /\ got[r].primary.o = "abort"
    /\ Usable(r, "backup")
    /\ Expected(r).name = Str(<<"F","&">>)
    /\ Cardinality(Ops(r, "put")) = 1

\* C3: after a cache miss, when neither source delivers a usable name
\* (timeout, network error, non-success status, unparsable body, missing,
\* non-string or blank name, in any combination), fetchMetaData returns
\* { name: '', avatarLink: '' } and the request writes nothing to the cache.
C3_ExhaustedIsEmptyAndUnwritten ==
  \A r \in Invocations :
    (/\ got[r].backup.o # "none"
     /\ ~Usable(r, "primary")
     /\ ~Usable(r, "backup")) =>
      /\ meta[r] = [name |-> Str(<<>>), avatarLink |-> Str(<<>>)]
      /\ Ops(r, "put") = {}
      /\ Finished(r)
      /\ Renders(resp[r], Str(<<>>), Str(<<>>))

C3_Witness ==
  \E r \in Invocations :
    /\ Finished(r)
    /\ cached[r] = Null
    /\ got[r].primary.o = "body"
    /\ ~Usable(r, "primary")
    /\ got[r].backup.o = "body"
    /\ ~Usable(r, "backup")
    /\ meta[r] = EmptyRecord


\* The runtime fires an armed timer: the only progress the handler itself
\* schedules.  Whether a source ever answers is up to the source.
SpecFair == Spec /\ \A r \in Invocations : WF_vars(TimerFires(r))

\* C4: after a cache miss, when the primary request hangs at any stage of the
\* exchange (before the response arrives, or while its body is read), the
\* resolver eventually abandons it and issues the backup request; and when
\* the backup then delivers a name that is not blank, that record is the
\* result.
C4_HungPrimaryIsAbandoned ==
  \A r \in Invocations :
    /\ (pc[r] \in {"primary_stalled", "primary_body_stalled"})
         ~> (Ops(r, "backup") # {})
    /\ []((got[r].primary.o = "abort" /\ Usable(r, "backup"))
            => meta[r] = Expected(r))

\* C5: every crawler request that produces a response produces a status-200
\* HTML response, whatever the cache read, the primary fetch, the backup
\* fetch and the cache write did; none of their failures leaves the handler
\* as an exception.
C5_CrawlerAlwaysGets200 ==
  \A r \in Invocations :
    (Finished(r) /\ IsCrawlerRequest(req[r])) =>
      /\ resp[r].kind = "html"
      /\ resp[r].status = 200
      /\ resp[r].contentType = "text/html;charset=UTF-8"

C5_Witness ==
  \E r \in Invocations :
    /\ Finished(r)
    /\ IsCrawlerRequest(req[r])
    /\ cached[r].t = "thrown"
    /\ got[r].primary.o = "body"
    /\ got[r].primary.body = Json(Obj([data |-> Obj([name |-> Num(7), avatarLink |-> Undefined])]))
    /\ got[r].backup.o = "body"
    /\ got[r].backup.body = Malformed
    /\ resp[r].kind = "html"

\* C6: a request whose user agent is not a crawler's is answered without a
\* cache read, a cache write, a primary request or a backup request, and
\* leaves the cache store as it was.
C6_FastPathTouchesNothing ==
  [][\A r \in Invocations :
       (pc[r] = "idle" /\ pc'[r] # "idle" /\ ~IsCrawlerRequest(req'[r])) =>
         /\ pc'[r] = "done"
         /\ io'[r] = <<>>
         /\ timer'[r] = "none"
         /\ cache' = cache]_vars

C6_Witness ==
  \E r \in Invocations :
    /\ Finished(r)
    /\ ~IsCrawlerRequest(req[r])
    /\ resp[r].kind = "redirect"
    /\ io[r] = <<>>
    /\ cache # {}

\* C7: a request that is not a crawler's gets, for every hostname, path and
\* query string, a 301 whose Location is destination + path + query, the
\* destination being the mapping's entry for a hostname that is a key of the
\* mapping and the default destination for every other hostname.
C7_RedirectLocation ==
  \A r \in Invocations :
    (Finished(r) /\ ~IsCrawlerRequest(req[r])) =>
      LET destination ==
            IF req[r].hostname = "tuneblast.us"
              THEN <<"https://anhus.livextop.com">>
            ELSE IF req[r].hostname = "topnews-redirect.takhanhthient3.workers.dev"
              THEN <<"https://topnewsus.feji.io">>
            ELSE <<"https://topnewsus.feji.io">>
      IN  resp[r] = [kind     |-> "redirect",
                     status   |-> 301,
                     location |-> destination \o req[r].pathname \o req[r].search]

\* what C8 says extractId returns
C8_Expected(slug) ==
  IF slug = <<>> THEN Null
  ELSE LET dashes == {k \in 1..Len(slug) : slug[k] = "-"}
           from   == IF dashes = {} THEN 1
                     ELSE 1 + CHOOSE k \in dashes : \A j \in dashes : j <= k
           cand   == [k \in 1..(Len(slug) + 1 - from) |-> slug[from + k - 1]]
       IN  IF cand # <<>> /\ \A k \in 1..Len(cand) : cand[k] \in AlnumChars
           THEN Str(cand) ELSE Null

\* C8: extractId returns null for the empty slug; otherwise the part after
\* the last hyphen (the whole slug when it has no hyphen) when that part is
\* not empty and all in [a-zA-Z0-9], and null in every other case: a slug
\* without hyphen that holds another character yields null.
C8_ExtractIdValidates ==
  ret # NotCalled => ret = C8_Expected(arg.s)

\* C9 as stated: a crawler request for the root path gets a 200 HTML
\* document whose title, og:title and og:image are empty, without any cache
\* or source access.
C9_RootRendersEmptyTitle ==
  \A r \in Invocations :
    (Finished(r) /\ IsCrawlerRequest(req[r]) /\ req[r].pathname \in {<<>>, <<"/">>}) =>
      /\ resp[r].kind = "html"
      /\ resp[r].status = 200
      /\ resp[r].title = <<>>
      /\ resp[r].ogTitle = <<>>
      /\ resp[r].ogImage = <<>>
      /\ io[r] = <<>>

\* C9 amended: a crawler request for the root path gets a 200 HTML document
\* whose title and og:title are the homepage placeholder 'Trang chủ' and
\* whose og:image is empty, without any cache or source access.
C9_RootRendersHomeTitle ==
  \A r \in Invocations :
    (Finished(r) /\ IsCrawlerRequest(req[r]) /\ req[r].pathname \in {<<>>, <<"/">>}) =>
      /\ resp[r].kind = "html"
      /\ resp[r].status = 200
      /\ resp[r].title = <<"Trang chủ">>
      /\ resp[r].ogTitle = <<"Trang chủ">>
      /\ resp[r].ogImage = <<>>
      /\ io[r] = <<>>
      /\ timer[r] = "none"

C9_Witness ==
  \E r \in Invocations :
    /\ Finished(r)
    /\ IsCrawlerRequest(req[r])
    /\ req[r].pathname = <<"/">>
    /\ resp[r].kind = "html"

\* the five entities and the characters they stand for
Entities ==
  { [e |-> <<"&","a","m","p",";">>,     c |-> "&"],
    [e |-> <<"&","l","t",";">>,         c |-> "<"],
    [e |-> <<"&","g","t",";">>,         c |-> ">"],
    [e |-> <<"&","q","u","o","t",";">>, c |-> "\""],
    [e |-> <<"&","#","3","9",";">>,     c |-> "'"] }

\* reading a text left to right, every entity replaced by its character
RECURSIVE Unescape(_)
Unescape(s) ==
  IF s = <<>> THEN <<>>
  ELSE IF \E x \in Entities : OccursAt(s, x.e, 1)
  THEN LET x == CHOOSE y \in Entities : OccursAt(s, y.e, 1)
       IN  <<x.c>> \o Unescape(SubSeq(s, Len(x.e) + 1, Len(s)))
  ELSE <<Head(s)>> \o Unescape(Tail(s))

\* C10: for every string s over an alphabet with & < > " ' and ordinary
\* characters, replacing the five entities in escapeHtml(s) by their
\* characters gives back exactly s.
C10_EscapeRoundTrip ==
  (ret # NotCalled /\ arg.t = "string") => Unescape(ret.s) = arg.s

C10_Witness ==
  /\ ret # NotCalled
  /\ arg = Str(<<"&","l","t",";">>)
  /\ ret = Str(<<"&","a","m","p",";","l","t",";">>)


---------------------------------------------------------------------------
(* The classification of the User-Agent header on its own *)

MaxPadLen == 1

\* a token in every mix of lower and upper case
CaseVariants(token) ==
  { [k \in 1..Len(token) |->
       IF k \in up /\ token[k] \in LowerLetters
       THEN CHOOSE c \in UpperLetters : LowerOf[c] = token[k]
       ELSE token[k]] : up \in SUBSET (1..Len(token)) }

\* what surrounds the token in a header
Paddings == StringsOver({"x", "/"}, MaxPadLen)

\* the middle of a header: two of the crawler tokens and a word one letter
\* short of both, in every letter case; the long token; ordinary clients
HeaderCores ==
  CaseVariants(facebot) \cup CaseVariants(facebook)
    \cup CaseVariants(<<"f","a","c","e","b","o">>)
    \cup { facebookexternalhit,
           <<"F","a","c","e","b","o","o","k","E","x","t","e","r","n","a","l",
             "H","i","t">>,
           <<"f","a","c","e","-","b","o","t">>,
           <<"c","u","r","l">>,
           <<>> }

HeaderValues ==
  {Null} \cup
  { Str(pre \o core \o post) :
      pre \in Paddings, core \in HeaderCores, post \in Paddings }

Bool(b) == [t |-> "boolean", b |-> b]

InitClassify ==
  /\ cache = {}
  /\ env = TRUE
  /\ IdleInvocation
  /\ arg \in HeaderValues
  /\ ret = NotCalled

\* the test of worker.js:49 on a request with this header
CallClassify ==
  /\ ret = NotCalled
  /\ ret' = Bool(~TakesFastPath([userAgent |-> arg]))
  /\ UNCHANGED <<cache, env, pc, req, id, cached, got, meta, timer, io, resp, arg>>

SpecClassify == InitClassify /\ [][CallClassify]_vars

\* character c is character x of a token, in either letter case
MatchesIgnoringCase(c, x) ==
  c = x \/ (c \in UpperLetters /\ LowerOf[c] = x)

\* the header holds the token somewhere, in any letter case
HoldsToken(s, token) ==
  \E k \in 1..(Len(s) - Len(token) + 1) :
    \A j \in 1..Len(token) : MatchesIgnoringCase(s[k + j - 1], token[j])

\* C11: a request takes the crawler path exactly when its User-Agent header
\* (absent taken as empty) holds one of facebook, facebookexternalhit,
\* facebot in any letter case, and the redirect path for every other value.
C11_CrawlerIffTokenAnyCase ==
  ret # NotCalled =>
    LET s == IF arg = Null THEN <<>> ELSE arg.s
    IN  ret.b <=> (\/ HoldsToken(s, <<"f","a","c","e","b","o","o","k">>)
                   \/ HoldsToken(s, <<"f","a","c","e","b","o","o","k","e","x",
                                      "t","e","r","n","a","l","h","i","t">>)
                   \/ HoldsToken(s, <<"f","a","c","e","b","o","t">>))

C11_Witness ==
  /\ ret = Bool(TRUE)
  /\ arg = Str(<<"x","F","a","c","e","B","O","T","/">>)


---------------------------------------------------------------------------
\* not empty and all in [a-zA-Z0-9]
C12_IsIdentifier(x) ==
  x # <<>> /\ \A k \in 1..Len(x) : x[k] \in AlnumChars

\* C12: every identifier that reaches I/O is not empty and all in
\* [a-zA-Z0-9]: every cache key read or written is 'meta:' + such an
\* identifier, every primary request carries one as its id parameter and
\* every backup request as <identifier>.json, whatever the request path.
C12_OnlyIdentifiersReachIO ==
  \A r \in Invocations :
    \A k \in 1..Len(io[r]) :
      LET o == io[r][k]
      IN  IF o.op \in {"get", "put"}
          THEN /\ Head(o.key) = "meta:"
               /\ C12_IsIdentifier(Tail(o.key))
          ELSE IF o.op = "primary"
          THEN /\ SubSeq(o.url, 1, 2) =
                    <<"https://apisport.vbonews.com/News/news-detailbasic", "?id=">>
               /\ C12_IsIdentifier(SubSeq(o.url, 3, Len(o.url)))
          ELSE /\ SubSeq(o.url, 1, 2) =
                    <<"https://file.lifenews247.com/sportnews/backup", "/">>
               /\ o.url[Len(o.url)] = ".json"
               /\ C12_IsIdentifier(SubSeq(o.url, 3, Len(o.url) - 1))


---------------------------------------------------------------------------
\* the place of an operation in the fallback chain
C13_Rank(op) ==
  CASE op = "get" -> 1 [] op = "primary" -> 2 [] op = "backup" -> 3 [] OTHER -> 4

PrimaryPending(r) ==
  pc[r] \in {"primary_wait", "primary_stalled", "primary_body", "primary_body_stalled"}

\* C13: within one crawler request the fallback steps are strictly ordered
\* and never overlap.  The primary request is never issued while the cache
\* read is pending or after a hit, only once it has ended with a miss or an
\* error; the backup request is issued only after the primary step has ended
\* without a usable record; the cache write is issued only after a source
\* returned a usable record; cache read, primary request, backup request and
\* cache write happen at most once each, and the backup is never requested
\* when the primary returned a name that is not blank.
C13_FallbackStepsInOrder ==
  \A r \in Invocations :
    /\ \A kind \in {"get", "primary", "backup", "put"} :
         Cardinality(Ops(r, kind)) <= 1
    /\ \A j, k \in 1..Len(io[r]) :
         j < k => C13_Rank(io[r][j].op) < C13_Rank(io[r][k].op)
    /\ pc[r] = "cache_get" => Len(io[r]) = 1
    /\ (Ops(r, "get") # {} /\ Ops(r, "primary") # {}) =>
         cached[r].t \in {"null", "thrown"}
    /\ PrimaryPending(r) => (Ops(r, "backup") = {} /\ Ops(r, "put") = {})
    /\ Ops(r, "backup") # {} =>
         (got[r].primary.o # "none" /\ ~Usable(r, "primary"))
    /\ pc[r] \in {"backup_wait", "backup_body", "backup_stalled"} =>
         Ops(r, "put") = {}
    /\ Ops(r, "put") # {} => (Usable(r, "primary") \/ Usable(r, "backup"))
    /\ Usable(r, "primary") => Ops(r, "backup") = {}

C13_Witness ==
  \E r \in Invocations :
    /\ Finished(r)
    /\ Len(io[r]) = 4
    /\ io[r][1].op = "get" /\ io[r][2].op = "primary"
    /\ io[r][3].op = "backup" /\ io[r][4].op = "put"
    /\ cached[r].t = "thrown"
    /\ got[r].primary.o = "status"


---------------------------------------------------------------------------
\* the record a request that missed the cache ends with, given what the
\* sources delivered
C14_ResultOnMiss(r) ==
  IF Usable(r, "primary") \/ Usable(r, "backup") THEN Expected(r)
  ELSE [name |-> Str(<<>>), avatarLink |-> Str(<<>>)]

\* C14: cache failures do not change the result of a crawler request.  A
\* cache read that throws is followed by exactly what follows a miss (the
\* primary request, then the backup, then the write-back attempt) and the
\* request returns the record it returns on a miss; a cache write that
\* throws is followed by the response that follows a write that succeeds.
C14_CacheFailuresChangeNothing ==
  /\ [][\A r \in Invocations :
          /\ (pc[r] = "cache_get" /\ cached'[r].t \in {"null", "thrown"}) =>
               /\ pc'[r] = "primary_wait"
               /\ io'[r] = Append(io[r], [op |-> "primary", url |-> ApiUrl(id[r].s)])
               /\ timer'[r] = "armed"
               /\ resp'[r] = resp[r] /\ got'[r] = got[r] /\ meta'[r] = meta[r]
               /\ cache' = cache
          /\ (pc[r] = "cache_put" /\ pc'[r] # "cache_put") =>
               /\ pc'[r] = "done"
               /\ resp'[r] = createMetaResponse(meta[r].name, meta[r].avatarLink)
               /\ io'[r] = io[r] /\ meta'[r] = meta[r]]_vars
  /\ [](\A r \in Invocations :
          (Finished(r) /\ cached[r].t \in {"null", "thrown"}) =>
             /\ meta[r] = C14_ResultOnMiss(r)
             /\ Renders(resp[r], C14_ResultOnMiss(r).name,
                        C14_ResultOnMiss(r).avatarLink)
             /\ (Ops(r, "put") # {}) <=> (Usable(r, "primary") \/ Usable(r, "backup")))

C14_Witness ==
  \E r \in Invocations :
    /\ Finished(r)
    /\ cached[r].t = "thrown"
    /\ Usable(r, "primary")
    /\ Ops(r, "put") # {}
    /\ \A e \in cache : e.key # CacheKey(id[r].s)
    /\ resp[r].title = <<"F","&","a","m","p",";">>


---------------------------------------------------------------------------
\* C15: the abort timer is armed when the primary request is issued and is
\* disarmed on every way the primary request can end (response, non-success
\* status, network failure thrown by the fetch, abort by the timeout): once
\* the primary step has ended no armed timer of the request remains, so the
\* abort callback cannot fire after it.
C15_NoTimerOutlivesThePrimaryStep ==
  \A r \in Invocations :
    /\ pc[r] = "primary_wait" => timer[r] = "armed"
    /\ got[r].primary.o # "none" => timer[r] \in {"cleared", "fired"}


---------------------------------------------------------------------------
(* Two invocations at once.  Each awaits its own operations, so their      *)
(* steps interleave in any order; they share only the KV namespace.  The   *)
(* requests and bodies are a part of those of Spec, and no entry outlives  *)
(* its 24 hours within the run.                                            *)

ConcRequests ==
  [userAgent : { Str(<<"c","u","r","l">>), Str(<<"F","a","c","e","b","o","t">>) },
   hostname  : { HostTuneblast },
   pathname  : { <<"/","t","-","a","1">>, <<"/","a","_","b">> },
   search    : { <<>> }]

ConcPrimaryBodies ==
  { Json(Obj([data |-> Obj([name |-> Str(<<" ">>), avatarLink |-> Str(<<"i">>)])])),
    Json(Obj([data |-> Obj([name |-> Str(<<"F","&">>), avatarLink |-> Str(<<"i">>)])])),
    Json(Obj([data |-> Obj([name |-> Str(<<" ","F","&","\t">>), avatarLink |-> Undefined])])) }

ConcBackupBodies ==
  { Malformed,
    Json(Obj([name |-> Str(<<" ","F","&","\t">>), avatarLink |-> Str(<<"i">>)])) }

InitConc ==
  /\ cache = {}
  /\ env = TRUE
  /\ IdleInvocation
  /\ arg = Undefined
  /\ ret = Undefined

StepConc(r) ==
  \/ ReceiveFrom(r, ConcRequests)
  \/ CacheGetReturns(r)
  \/ CacheGetThrows(r)
  \/ PrimaryResponds(r)
  \/ PrimaryThrows(r)
  \/ PrimaryStalls(r)
  \/ TimerFires(r)
  \/ PrimaryBodyArrivesFrom(r, ConcPrimaryBodies)
  \/ PrimaryBodyStalls(r)
  \/ BackupResponds(r)
  \/ BackupThrows(r)
  \/ BackupStalls(r)
  \/ BackupBodyArrivesFrom(r, ConcBackupBodies)
  \/ CachePutDone(r)
  \/ CachePutThrows(r)
  \/ Retire(r)

NextConc == \E r \in Invocations : StepConc(r)

SpecConc == InitConc /\ [][NextConc]_vars


---------------------------------------------------------------------------
\* two crawler requests in flight for one identifier, each of which read
\* the cache and found nothing
C16_BothMissed(r1, r2) ==
  /\ r1 # r2
  /\ \A r \in {r1, r2} :
       /\ pc[r] # "idle"
       /\ IsCrawlerRequest(req[r])
       /\ cached[r].t = "null"
  /\ id[r1] = id[r2]

C16_Resolves(r) == Usable(r, "primary") \/ Usable(r, "backup")

\* C16: two concurrent crawler requests for one identifier that both found
\* the cache empty are not de-duplicated.  Each issues its own primary
\* request and, when the primary failed, its own backup request; each whose
\* sources delivered a record issues its own write of that record to
\* meta:X.  A write that is applied replaces what is stored under its key
\* and nothing else changes the cache (the last write wins), so after both
\* finish whatever is stored under meta:X is the record of one of the two,
\* which is one and the same value when the sources gave both the same data.
C16_NotDeduplicated ==
  /\ [](\A r1, r2 \in Invocations :
          C16_BothMissed(r1, r2) =>
            /\ \A r \in {r1, r2} :
                 /\ Cardinality(Ops(r, "primary")) = 1
                 /\ \A k \in Ops(r, "primary") : io[r][k].url = ApiUrl(id[r].s)
                 /\ Finished(r) =>
                      /\ Cardinality(Ops(r, "backup")) =
                           (IF Usable(r, "primary") THEN 0 ELSE 1)
                      /\ \A k \in Ops(r, "backup") : io[r][k].url = BackupUrl(id[r].s)
                      /\ Cardinality(Ops(r, "put")) =
                           (IF C16_Resolves(r) THEN 1 ELSE 0)
                      /\ \A k \in Ops(r, "put") :
                           /\ io[r][k].key = CacheKey(id[r].s)
                           /\ io[r][k].value = JSONstringify(Expected(r))
            /\ (Finished(r1) /\ Finished(r2)) =>
                 \A e \in cache :
                   e.key = CacheKey(id[r1].s) =>
                     \E r \in {r1, r2} :
                       /\ C16_Resolves(r)
                       /\ e.value = JSONstringify(Expected(r)))
  /\ [][/\ \A r \in Invocations :
             CachePutDone(r) =>
               LET w == io[r][Len(io[r])]
               IN  /\ {e.value : e \in {x \in cache' : x.key = w.key}} = {w.value}
                   /\ {x \in cache' : x.key # w.key} = {x \in cache : x.key # w.key}
        /\ cache' # cache => \E r \in Invocations : CachePutDone(r)]_vars

\* both finished after finding the cache empty, each wrote a different
\* record for the identifier, and the cache holds one of them
C16_Witness ==
  \E r1, r2 \in Invocations :
    /\ C16_BothMissed(r1, r2)
    /\ Finished(r1) /\ Finished(r2)
    /\ Ops(r1, "put") # {} /\ Ops(r2, "put") # {}
    /\ Expected(r1) # Expected(r2)
    /\ \E e \in cache : /\ e.key = CacheKey(id[r1].s)
                        /\ e.value = JSONstringify(Expected(r1))


---------------------------------------------------------------------------
\* C17: the text createMetaResponse embeds for a name or an avatar link is
\* escapeHtml of it; that text has none of the characters < > " ' in it,
\* every & in it begins one of the five entities, and for an absent or
\* falsy input it is the empty string.
C17_EmbeddedTextIsInert ==
  ret # NotCalled =>
    /\ createMetaResponse(arg, Undefined).title = ret.s
    /\ createMetaResponse(arg, Undefined).ogTitle = ret.s
    /\ createMetaResponse(arg, Undefined).ogDescription = ret.s
    /\ createMetaResponse(Undefined, arg).ogImage = ret.s
    /\ \A k \in 1..Len(ret.s) :
         /\ ret.s[k] \notin {"<", ">", "\"", "'"}
         /\ ret.s[k] = "&" => \E x \in Entities : OccursAt(ret.s, x.e, k)
    /\ ~Truthy(arg) => ret.s = <<>>

\* a text with four of the five characters has been escaped
C17_Witness ==
  /\ ret # NotCalled
  /\ arg = Str(<<"<", "'", "&", "\"">>)
  /\ ret = Str(<<"&","l","t",";", "&","#","3","9",";", "&","a","m","p",";",
                 "&","q","u","o","t",";">>)


---------------------------------------------------------------------------
\* a stored value is a record with a name that is a string, is not empty and
\* neither begins nor ends with white space
C18_NamedRecord(value) ==
  LET n == value.json.name
  IN  /\ n.t = "string"
      /\ n.s # <<>>
      /\ n.s[1] \notin WhiteSpace
      /\ n.s[Len(n.s)] \notin WhiteSpace

\* C18: starting from an empty cache, whatever requests arrive (crawler or
\* not) and however their steps interleave and their sources answer, every
\* entry of the cache is a record whose name is not empty and has no leading
\* or trailing white space; an entry enters the cache only by the write of a
\* crawler request, under the key 'meta:' followed by the identifier of
\* that request; the record { name: '', avatarLink: '' } is never stored.
C18_OnlyNamedRecordsAreStored ==
  /\ [](/\ \A e \in cache :
             /\ C18_NamedRecord(e.value)
             /\ e.value # JSONstringify(EmptyRecord)
        /\ \A r \in Invocations : \A k \in Ops(r, "put") :
             /\ C18_NamedRecord(io[r][k].value)
             /\ io[r][k].key = <<"meta:">> \o id[r].s)
  /\ [][cache' # cache =>
          \E r \in Invocations :
            /\ pc[r] = "cache_put"
            /\ IsCrawlerRequest(req[r])
            /\ \A e \in cache' \ cache :
                 /\ e.key = <<"meta:">> \o id[r].s
                 /\ e.value = JSONstringify(meta[r])]_vars

\* records are stored for two identifiers, and a request that is not a
\* crawler's has been served
C18_Witness ==
  /\ \E e1, e2 \in cache : e1.key # e2.key
  /\ \E r \in Invocations : Finished(r) /\ ~IsCrawlerRequest(req[r])


---------------------------------------------------------------------------
\* C19: with no cache store bound, a crawler request with an identifier
\* reads no cache and writes none.  Its first operation is the primary
\* request, issued as the request arrives, whatever requests came before it
\* (a repeated request hits the sources again); the backup request follows
\* exactly when the primary was not usable; and the request ends with a 200
\* response that renders the record the sources resolved.
C19_UnboundStoreGoesToTheSources ==
  /\ [](~env =>
          /\ cache = {}
          /\ \A r \in Invocations :
               /\ Ops(r, "get") = {} /\ Ops(r, "put") = {}
               /\ pc[r] # "cache_get" /\ pc[r] # "cache_put"
               /\ cached[r] = Undefined
               /\ (pc[r] # "idle" /\ id[r].t = "string") =>
                    /\ IsCrawlerRequest(req[r])
                    /\ Len(io[r]) >= 1
                    /\ io[r][1] = [op |-> "primary", url |-> ApiUrl(id[r].s)]
                    /\ Len(io[r]) = 2 =>
                         /\ io[r][2] = [op |-> "backup", url |-> BackupUrl(id[r].s)]
                         /\ got[r].primary.o # "none"
                         /\ ~Usable(r, "primary")
                    /\ Len(io[r]) <= 2
                    /\ Finished(r) =>
                         /\ Len(io[r]) = (IF Usable(r, "primary") THEN 1 ELSE 2)
                         /\ meta[r] = C14_ResultOnMiss(r)
                         /\ Renders(resp[r], C14_ResultOnMiss(r).name,
                                    C14_ResultOnMiss(r).avatarLink))
  /\ [][\A r \in Invocations :
          (~env /\ pc[r] = "idle" /\ pc'[r] # "idle" /\ id'[r].t = "string") =>
             /\ pc'[r] = "primary_wait"
             /\ io'[r] = <<[op |-> "primary", url |-> ApiUrl(id'[r].s)]>>]_vars

\* no store is bound, the primary failed and the backup delivered the
\* record that the response renders
C19_Witness ==
  \E r \in Invocations :
    /\ ~env
    /\ Finished(r)
    /\ got[r].primary.o = "status"
    /\ Usable(r, "backup")
    /\ io[r] = <<[op |-> "primary", url |-> ApiUrl(id[r].s)],
                 [op |-> "backup", url |-> BackupUrl(id[r].s)]>>
    /\ resp[r].status = 200
    /\ resp[r].title = <<"F","&","a","m","p",";">>

====
